---- MODULE Spec2Model ----
(***************************************************************************)
(* PulsePlay (src/routes/+page.svelte): the step detector, the cadence     *)
(* estimator, the track selector, the playback controller and the demo     *)
(* stimulus generator of the page component, as one state machine.         *)
(*                                                                         *)
(* Units.  Time is in milliseconds, as Date.now().  A magnitude is in      *)
(* tenths (10.5 is 105).  A non-integer number (speed, a playback rate,    *)
(* the unrounded newBPM) is a pair <<num, den>>, den = 0 for Infinity.     *)
(* demoValue is in twentieths (0.5 is 10, one 0.05 increment is 1).        *)
(***************************************************************************)
EXTENDS Integers, Sequences, FiniteSets, TLC

VARIABLES
    permissionGranted,  \* line 26
    isMonitoring,       \* line 27
    steps,              \* line 28
    lastStepTime,       \* line 29
    isPlaying,          \* line 30
    currentBPM,         \* line 31
    speed,              \* line 32
    permissionStatus,   \* line 33
    isDemoMode,         \* line 34
    currentAudio,       \* line 35: the streaming element (fallback engine)
    audioContext,       \* lines 36, 38: the context with its gain node: "null",
                        \* "running" or "closed"
    audioSource,        \* line 37: the buffered source (pitch-preserving engine)
    isLoading,          \* line 39
    currentTrack,       \* line 341: $: currentTrack = getMatchingTrack(currentBPM)
    now,                \* Date.now()
    demoTimeout,        \* line 259: deadline of the pending setTimeout, 0 = none
    demoValue,          \* line 271
    increasing,         \* line 272
    loads,              \* calls of loadAndPlayAudio suspended at lines 112-114
    timeElapsed,        \* line 203: the last interval calculateSpeed divided by (ms)
    newBPM,             \* line 206: the last newBPM calculateSpeed computed
    magnitude,          \* line 226: the magnitude of the last accepted sample
    advances,           \* how many times the clock has been advanced
    demoTicks,          \* how many times the setInterval callback has run
    orphaned,           \* lines 117, 130: the files of the buffered sources that
                        \* were started, never stopped and are no longer referenced
    destroyed           \* lines 333-340: whether the cleanup of onMount has run

vars == <<permissionGranted, isMonitoring, steps, lastStepTime, isPlaying,
          currentBPM, speed, permissionStatus, isDemoMode, currentAudio,
          audioContext, audioSource, isLoading, currentTrack, now, demoTimeout,
          demoValue, increasing, loads, timeElapsed, newBPM, magnitude, advances, demoTicks,
          orphaned, destroyed>>

----------------------------------------------------------------------------
(* Bounds of the model *)

\* Date.now() when the page is loaded (any value above the refractory period).
StartTime == 1000
\* How many times the clock is advanced in a session with playback and demo mode.
MaxAdvances == 1
\* How many times the clock is advanced in a session without playback or
\* without demo mode.
MaxCadenceAdvances == 2
\* How many calls of loadAndPlayAudio may be suspended at once.
MaxInFlight == 2
\* How many times the setInterval callback of the demo mode runs in a session
\* with playback.
MaxDemoTicks == 3
\* How many times it runs in a session without playback (two periods of the wave).
CadenceTicks == 110
\* How many times it has run when a warmed-up session is taken up.
WarmTicks == 24
\* The clock advances the model takes, in ms.
Advances == {300, 3000}
\* The clock advances of a session without playback.
CadenceAdvances == {100, 200, 500, 2000, 3000}
\* Milliseconds that may pass between the two Date.now() reads of one accepted step.
CallGaps == {0, 1}
\* Magnitudes the sensor delivers, in tenths: at rest, at the threshold, a footfall.
Magnitudes == {98, 105, 120}
\* The BPM values the track selector is tabulated over.
BpmInputs == 0 - 5 .. 205

----------------------------------------------------------------------------
(* Program constants *)

threshold == 105
RefractoryMs == 300
StepLengthMm == 700
MinBPM == 60
MaxBPM == 180
Hysteresis == 2
DemoDelayMs == 3000
DemoStart == 10
DemoHigh == 36
DemoLow == 10
DemoBase == 80
DemoScale == 2

null == [null |-> TRUE]

musicTracks ==
    << [minBPM |-> 0,   maxBPM |-> 90,  name |-> "Relaxing Ambient",
        audioFile |-> "/songs/relaxing-ambient.mp3", originalBPM |-> 75],
       [minBPM |-> 90,  maxBPM |-> 110, name |-> "Chill Vibes",
        audioFile |-> "/songs/chill-vibes.mp3",      originalBPM |-> 95],
       [minBPM |-> 110, maxBPM |-> 130, name |-> "Walking Rhythm",
        audioFile |-> "/songs/walking-rhythm.mp3",   originalBPM |-> 120],
       [minBPM |-> 130, maxBPM |-> 150, name |-> "Energy Boost",
        audioFile |-> "/songs/energy-boost.mp3",     originalBPM |-> 140],
       [minBPM |-> 150, maxBPM |-> 200, name |-> "Power Walk",
        audioFile |-> "/songs/power-walk.mp3",       originalBPM |-> 175] >>

AudioFiles == { musicTracks[i].audioFile : i \in 1..Len(musicTracks) }

TrackOfFile(f) == CHOOSE t \in { musicTracks[i] : i \in 1..Len(musicTracks) } : t.audioFile = f

----------------------------------------------------------------------------
(* Pure functions *)

\* inRange with the upper end of the range included.
inRangeClosed(track, bpm) == bpm >= track.minBPM /\ bpm <= track.maxBPM

\* Array.prototype.find: the first entry, in catalog order, the predicate holds for.
inRange(track, bpm) == bpm >= track.minBPM /\ bpm < track.maxBPM

getMatchingTrack(bpm) ==
    LET hits == { i \in 1..Len(musicTracks) : inRange(musicTracks[i], bpm) }
    IN  IF hits = {} THEN musicTracks[1]
        ELSE musicTracks[CHOOSE i \in hits : \A j \in hits : i <= j]

\* clampRate without the lower limit of 0.5.
clampRateNoFloor(bpm, originalBPM) ==
    IF bpm > 2 * originalBPM THEN <<2, 1>> ELSE <<bpm, originalBPM>>

\* Math.max(0.5, Math.min(2.0, bpm / originalBPM)) as a fraction.
clampRate(bpm, originalBPM) ==
    IF 2 * bpm < originalBPM THEN <<1, 2>>
    ELSE IF bpm > 2 * originalBPM THEN <<2, 1>>
    ELSE <<bpm, originalBPM>>

\* (Date.now() - lastStepTime), in ms, with both read in calculateSpeed.
elapsedMs(dateNow, last) == dateNow - last

\* speed = (1 / timeElapsed) * 0.7, in m/s: 700 / ms, Infinity for 0 ms.
speedOf(ms) == <<StepLengthMm, ms>>

\* clampBPM with the catalog's upper end, 200, for the upper limit.
clampBPMWide(ms) ==
    IF ms = 0 THEN <<200, 1>>
    ELSE IF 60000 > 200 * ms THEN <<200, 1>>
    ELSE IF 60000 < MinBPM * ms THEN <<MinBPM, 1>>
    ELSE <<60000, ms>>

\* Math.min(180, Math.max(60, (1 / timeElapsed) * 60)): 60000 / ms clamped.
clampBPM(ms) ==
    IF ms = 0 THEN <<MaxBPM, 1>>
    ELSE IF 60000 > MaxBPM * ms THEN <<MaxBPM, 1>>
    ELSE IF 60000 < MinBPM * ms THEN <<MinBPM, 1>>
    ELSE <<60000, ms>>

\* Math.abs(newBPM - currentBPM) > 2 for a fraction b and an integer cur.
significant(b, cur) ==
    LET diff == b[1] - cur * b[2]
        abs  == IF diff < 0 THEN 0 - diff ELSE diff
    IN  abs > Hysteresis * b[2]

\* Math.round of a non-negative fraction: floor(x + 0.5).
round(b) == (2 * b[1] + b[2]) \div (2 * b[2])

\* refractoryOver with >= for >.
refractoryOverInclusive(t, last) == t - last >= RefractoryMs

\* now - lastStepTime > 300
refractoryOver(t, last) == t - last > RefractoryMs

\* magnitude > threshold
overThreshold(m) == m > threshold

\* demoValue > 1.8 and demoValue < 0.5 in IEEE doubles.  Adding 0.05 to 0.5
\* twenty-six times gives 1.8000000000000012, which is above 1.8; subtracting it
\* back gives exactly 0.5, which is not below 0.5, and then 0.45.
demoAbove(k) == k >= DemoHigh
demoBelow(k) == k < DemoLow

\* Math.round(80 + demoValue * 40)
demoBPM(k) == DemoBase + DemoScale * k

----------------------------------------------------------------------------
(* State *)

audioVars == <<currentAudio, audioContext, audioSource, isLoading, loads, orphaned>>
demoVars  == <<isDemoMode, demoTimeout, demoValue, increasing, demoTicks>>
stepVars  == <<steps, lastStepTime, timeElapsed, newBPM, magnitude>>
permVars  == <<permissionGranted, isMonitoring>>
lifeVars  == <<destroyed>>

InFlight == loads[musicTracks[1].audioFile] + loads[musicTracks[2].audioFile]
            + loads[musicTracks[3].audioFile] + loads[musicTracks[4].audioFile]
            + loads[musicTracks[5].audioFile]

Init ==
    /\ permissionGranted = FALSE
    /\ isMonitoring = FALSE
    /\ steps = 0
    /\ lastStepTime = 0
    /\ isPlaying = FALSE
    /\ currentBPM = 0
    /\ speed = <<0, 1>>
    /\ permissionStatus = "Waiting for permission"
    /\ isDemoMode = FALSE
    /\ currentAudio = null
    /\ audioContext = "null"
    /\ audioSource = null
    /\ isLoading = FALSE
    /\ currentTrack = getMatchingTrack(0)
    /\ now = StartTime
    /\ demoTimeout = 0
    /\ demoValue = DemoStart
    /\ increasing = TRUE
    /\ loads = [f \in AudioFiles |-> 0]
    /\ orphaned = {}
    /\ timeElapsed = 0
    /\ newBPM = <<0, 1>>
    /\ magnitude = 0
    /\ advances = 0
    /\ demoTicks = 0
    /\ destroyed = FALSE

----------------------------------------------------------------------------
(* The playback controller *)

\* loadAndPlayAudio up to its first suspension at the fetch (lines 98-112).
\* ctxOk: whether initializeAudioContext, when it is called, gets a context.
loadAndPlayAudio(track, ctxOk) ==
    /\ InFlight < MaxInFlight
    /\ audioContext' = IF audioContext = "null" /\ ctxOk THEN "running" ELSE audioContext
    /\ isLoading' = TRUE
    /\ audioSource' = IF audioSource # null
                      THEN [audioSource EXCEPT !.playing = FALSE]
                      ELSE audioSource
    /\ loads' = [loads EXCEPT ![track.audioFile] = @ + 1]

\* playWithHTMLAudio (lines 141-162); volume is in tenths.  outcome: "plays", "rejected" (the promise
\* of play() rejects) or "throws" (an exception after the old element was paused).
playWithHTMLAudio(track, outcome) ==
    currentAudio' =
        IF outcome = "throws"
        THEN IF currentAudio # null
             THEN [currentAudio EXCEPT !.playing = FALSE]
             ELSE currentAudio
        ELSE [file    |-> track.audioFile,
              loop    |-> TRUE,
              volume  |-> 7,
              rate    |-> clampRate(currentBPM, track.originalBPM),
              playing |-> outcome = "plays"]

\* stopAudio that pauses the streaming element and keeps the reference to it.
stopAudioPausing(source, element) ==
    << IF source # null THEN null ELSE source,
       IF element # null THEN [element EXCEPT !.playing = FALSE] ELSE element >>

\* stopAudio (lines 165-177) as a function of the two engine references: each
\* engine that is referenced is stopped and its reference cleared.
stopAudioResult(source, element) ==
    << IF source # null THEN null ELSE source,
       IF element # null THEN null ELSE element >>

stopAudio ==
    /\ audioSource' = stopAudioResult(audioSource, currentAudio)[1]
    /\ currentAudio' = stopAudioResult(audioSource, currentAudio)[2]

\* adjustPlaybackSpeed (lines 180-192)
adjustPlaybackSpeed(bpm) ==
    LET track       == getMatchingTrack(bpm)
        clampedRate == clampRate(bpm, track.originalBPM)
    IN  IF audioSource # null /\ audioContext # "null"
        THEN /\ audioSource' = [audioSource EXCEPT !.rate = clampedRate]
             /\ UNCHANGED currentAudio
        ELSE IF currentAudio # null
        THEN /\ currentAudio' = [currentAudio EXCEPT !.rate = clampedRate]
             /\ UNCHANGED audioSource
        ELSE UNCHANGED <<audioSource, currentAudio>>

\* The rest of loadAndPlayAudio when fetch and decode succeed (lines 114-131).
\* A source started on a closed context renders nothing.  Line 117 overwrites
\* the reference to the previous source, which line 107 stopped only if it was
\* already there when this call began.
LoadSucceeds(f) ==
    /\ loads[f] > 0
    /\ audioContext # "null"
    /\ loads' = [loads EXCEPT ![f] = @ - 1]
    /\ audioSource' = [file    |-> f,
                       rate    |-> clampRate(currentBPM, TrackOfFile(f).originalBPM),
                       playing |-> audioContext = "running"]
    /\ orphaned' = IF audioSource # null /\ audioSource.playing
                   THEN orphaned \cup {audioSource.file}
                   ELSE orphaned
    /\ isLoading' = FALSE
    /\ UNCHANGED <<currentAudio, audioContext, isPlaying, currentBPM, currentTrack,
                   speed, permissionStatus, now, advances>>
    /\ UNCHANGED <<demoVars, stepVars, permVars, lifeVars>>

\* LoadFails without line 134: the catch block leaves isLoading as it is.
LoadFailsKeepsLoading(f, outcome) ==
    /\ loads[f] > 0
    /\ loads' = [loads EXCEPT ![f] = @ - 1]
    /\ playWithHTMLAudio(TrackOfFile(f), outcome)
    /\ UNCHANGED <<audioSource, audioContext, orphaned, isPlaying, currentBPM, currentTrack,
                   speed, permissionStatus, now, advances, isLoading>>
    /\ UNCHANGED <<demoVars, stepVars, permVars, lifeVars>>

\* The rest of loadAndPlayAudio when the fetch, the decode or the missing context
\* throws (lines 132-137).
LoadFails(f, outcome) ==
    /\ loads[f] > 0
    /\ loads' = [loads EXCEPT ![f] = @ - 1]
    /\ isLoading' = FALSE
    /\ playWithHTMLAudio(TrackOfFile(f), outcome)
    /\ UNCHANGED <<audioSource, audioContext, orphaned, isPlaying, currentBPM, currentTrack,
                   speed, permissionStatus, now, advances>>
    /\ UNCHANGED <<demoVars, stepVars, permVars, lifeVars>>

\* toggleMusic (lines 319-330); the button is disabled while isLoading (line 418).
toggleMusic(ctxOk) ==
    /\ ~destroyed
    /\ ~isLoading
    /\ IF isPlaying
       THEN /\ stopAudio
            /\ isPlaying' = FALSE
            /\ UNCHANGED <<audioContext, isLoading, loads, orphaned>>
       ELSE /\ isPlaying' = TRUE
            /\ loadAndPlayAudio(getMatchingTrack(currentBPM), ctxOk)
            /\ UNCHANGED <<currentAudio, orphaned>>
    /\ UNCHANGED <<currentBPM, currentTrack, speed, permissionStatus, now, advances>>
    /\ UNCHANGED <<demoVars, stepVars, permVars, lifeVars>>

----------------------------------------------------------------------------
(* The step detector and the cadence estimator *)

\* calculateSpeed (lines 200-223), called with steps and lastStepTime already
\* updated by detectSteps.  dateNow: what its own Date.now() returns.
calculateSpeed(dateNow, ctxOk) ==
    IF steps' > 1
    THEN LET ms == elapsedMs(dateNow, lastStepTime')
             nb == clampBPM(ms)
         IN  /\ timeElapsed' = ms
             /\ speed' = speedOf(ms)
             /\ newBPM' = nb
             /\ IF significant(nb, currentBPM)
                THEN LET previousTrack == getMatchingTrack(currentBPM)
                         rounded       == round(nb)
                         newTrack      == getMatchingTrack(rounded)
                     IN  /\ currentBPM' = rounded
                         /\ IF isPlaying /\ newTrack.audioFile # previousTrack.audioFile
                            THEN /\ loadAndPlayAudio(newTrack, ctxOk)
                                 /\ UNCHANGED <<currentAudio, orphaned>>
                            ELSE IF isPlaying
                            THEN /\ adjustPlaybackSpeed(rounded)
                                 /\ UNCHANGED <<audioContext, isLoading, loads, orphaned>>
                            ELSE UNCHANGED audioVars
                ELSE UNCHANGED <<currentBPM, audioVars>>
    ELSE UNCHANGED <<timeElapsed, speed, newBPM, currentBPM, audioVars>>

\* handleMotionEvent -> detectSteps (lines 226-249) for a sample of magnitude m.
\* gap: the milliseconds between Date.now() in detectSteps and in calculateSpeed.
detectSteps(m, gap, ctxOk) ==
    /\ isMonitoring
    /\ IF overThreshold(m) /\ refractoryOver(now, lastStepTime)
       THEN /\ steps' = steps + 1
            /\ lastStepTime' = now
            /\ magnitude' = m
            /\ now' = now + gap
            /\ calculateSpeed(now + gap, ctxOk)
            /\ currentTrack' = getMatchingTrack(currentBPM')
            /\ UNCHANGED <<isPlaying, permissionStatus, advances>>
            /\ UNCHANGED <<demoVars, permVars, lifeVars>>
       ELSE UNCHANGED vars

----------------------------------------------------------------------------
(* Permission, monitoring and the demo stimulus generator *)

\* startMonitoring (lines 252-264), reached with permissionGranted just set.
startMonitoring ==
    IF isMonitoring
    THEN UNCHANGED <<isMonitoring, demoTimeout>>
    ELSE /\ isMonitoring' = TRUE
         /\ demoTimeout' = now + DemoDelayMs

\* requestPermission with startMonitoring's work done on a denial as well.
requestPermissionMonitoring(answer) ==
    /\ ~destroyed
    /\ ~permissionGranted
    /\ IF answer \in {"granted", "unprompted"}
       THEN /\ permissionGranted' = TRUE
            /\ permissionStatus' = "Motion access granted"
            /\ startMonitoring
       ELSE /\ permissionStatus' = IF answer = "denied"
                                   THEN "Permission denied"
                                   ELSE "Error requesting permission"
            /\ isMonitoring' = TRUE
            /\ demoTimeout' = now + DemoDelayMs
            /\ UNCHANGED permissionGranted
    /\ UNCHANGED <<isPlaying, currentBPM, currentTrack, speed, now, advances,
                   isDemoMode, demoValue, increasing, demoTicks>>
    /\ UNCHANGED <<audioVars, stepVars, lifeVars>>

\* requestPermission (lines 289-316); the button is disabled once granted (line 388).
\* answer: "granted", "denied", "error" (the request throws) or "unprompted" (the
\* platform has no requestPermission).
requestPermission(answer) ==
    /\ ~destroyed
    /\ ~permissionGranted
    /\ IF answer \in {"granted", "unprompted"}
       THEN /\ permissionGranted' = TRUE
            /\ permissionStatus' = "Motion access granted"
            /\ startMonitoring
       ELSE /\ permissionStatus' = IF answer = "denied"
                                   THEN "Permission denied"
                                   ELSE "Error requesting permission"
            /\ UNCHANGED <<permissionGranted, isMonitoring, demoTimeout>>
    /\ UNCHANGED <<isPlaying, currentBPM, currentTrack, speed, now, advances,
                   isDemoMode, demoValue, increasing, demoTicks>>
    /\ UNCHANGED <<audioVars, stepVars, lifeVars>>

\* The setTimeout callback of startMonitoring (lines 259-263) with startDemoMode
\* (lines 267-272); it runs at or after its deadline.
demoTimeoutFires ==
    /\ demoTimeout # 0
    /\ now >= demoTimeout
    /\ demoTimeout' = 0
    /\ IF ~isDemoMode /\ speed[1] = 0
       THEN /\ isDemoMode' = TRUE
            /\ permissionStatus' = "Demo mode (simulated motion)"
            /\ demoValue' = DemoStart
            /\ increasing' = TRUE
       ELSE UNCHANGED <<isDemoMode, permissionStatus, demoValue, increasing>>
    /\ UNCHANGED <<isPlaying, currentBPM, currentTrack, speed, now, advances, demoTicks>>
    /\ UNCHANGED <<audioVars, stepVars, permVars, lifeVars>>

\* The setInterval callback of startDemoMode (lines 274-285); the model runs it
\* at most limit times.
demoTick(limit) ==
    /\ isDemoMode
    /\ demoTicks < limit
    /\ demoTicks' = demoTicks + 1
    /\ LET next == IF increasing THEN demoValue + 1 ELSE demoValue - 1
       IN  /\ demoValue' = next
           /\ increasing' = IF increasing
                            THEN ~demoAbove(next)
                            ELSE demoBelow(next)
           /\ speed' = <<next, 20>>
           /\ currentBPM' = demoBPM(next)
           /\ currentTrack' = getMatchingTrack(demoBPM(next))
    /\ UNCHANGED <<isDemoMode, demoTimeout, isPlaying, permissionStatus, now, advances>>
    /\ UNCHANGED <<audioVars, stepVars, permVars, lifeVars>>

\* The cleanup function returned to onMount (lines 333-340), run when the
\* component is destroyed.  The devicemotion listener, the timers and the loads
\* in flight are not cancelled by it; the buttons are gone with the markup.
\* Closing the context silences every source that is connected to it.
onDestroy ==
    /\ ~destroyed
    /\ destroyed' = TRUE
    /\ stopAudio
    /\ audioContext' = IF audioContext # "null" THEN "closed" ELSE audioContext
    /\ orphaned' = IF audioContext # "null" THEN {} ELSE orphaned
    /\ UNCHANGED <<isPlaying, currentBPM, currentTrack, speed, permissionStatus, now,
                   advances, isLoading, loads>>
    /\ UNCHANGED <<demoVars, stepVars, permVars>>

\* Time passes; the model advances the clock at most limit times.
Advance(d, limit) ==
    /\ advances < limit
    /\ advances' = advances + 1
    /\ now' = now + d
    /\ UNCHANGED <<isPlaying, currentBPM, currentTrack, speed, permissionStatus>>
    /\ UNCHANGED <<audioVars, stepVars, permVars, demoVars, lifeVars>>

----------------------------------------------------------------------------
(* Specifications *)

\* The state in which a session is taken up after the demo mode has been
\* running for WarmTicks ticks with the player idle: permission was granted and
\* one step was taken at StartTime, the timeout fired DemoDelayMs later (speed
\* was still 0), and the callback ran WarmTicks times.  It is a state SpecCadence
\* reaches; starting from it spares the playback sessions the ticks before it.
InitWarm ==
    /\ permissionGranted = TRUE
    /\ isMonitoring = TRUE
    /\ steps = 1
    /\ lastStepTime = StartTime
    /\ isPlaying = FALSE
    /\ currentBPM = demoBPM(DemoStart + WarmTicks)
    /\ speed = <<DemoStart + WarmTicks, 20>>
    /\ permissionStatus = "Demo mode (simulated motion)"
    /\ isDemoMode = TRUE
    /\ currentAudio = null
    /\ audioContext = "null"
    /\ audioSource = null
    /\ isLoading = FALSE
    /\ currentTrack = getMatchingTrack(demoBPM(DemoStart + WarmTicks))
    /\ now = StartTime + DemoDelayMs
    /\ demoTimeout = 0
    /\ demoValue = DemoStart + WarmTicks
    /\ increasing = TRUE
    /\ loads = [f \in AudioFiles |-> 0]
    /\ orphaned = {}
    /\ timeElapsed = 0
    /\ newBPM = <<0, 1>>
    /\ magnitude = 120
    /\ advances = 0
    /\ demoTicks = WarmTicks
    /\ destroyed = FALSE

\* The demo callback runs MaxDemoTicks times in a session from construction, and
\* MaxDemoTicks more times in a session taken up at InitWarm.
tickLimit == IF demoTicks >= WarmTicks THEN WarmTicks + MaxDemoTicks ELSE MaxDemoTicks

\* The events of a session with playback.
Next ==
    \/ \E d \in Advances : Advance(d, MaxAdvances)
    \/ \E answer \in {"granted", "denied", "error", "unprompted"} : requestPermission(answer)
    \/ \E m \in Magnitudes, gap \in CallGaps, ctxOk \in BOOLEAN : detectSteps(m, gap, ctxOk)
    \/ demoTimeoutFires
    \/ demoTick(tickLimit)
    \/ \E ctxOk \in BOOLEAN : toggleMusic(ctxOk)
    \/ \E f \in AudioFiles : LoadSucceeds(f)
    \/ \E f \in AudioFiles, outcome \in {"plays", "rejected", "throws"} : LoadFails(f, outcome)

\* A session from the construction of the component, or taken up at InitWarm.
Spec == (Init \/ InitWarm) /\ [][Next]_vars

\* A load in flight settles: its fetch and decode resolve, or one of them rejects.
Settle ==
    \/ \E f \in AudioFiles : LoadSucceeds(f)
    \/ \E f \in AudioFiles, outcome \in {"plays", "rejected", "throws"} : LoadFails(f, outcome)

\* A session with playback and real motion that may end with the destruction
\* of the component, after which the listener and the loads in flight go on.
NextLifecycle ==
    \/ \E d \in Advances : Advance(d, MaxCadenceAdvances)
    \/ \E answer \in {"granted", "denied", "error", "unprompted"} : requestPermission(answer)
    \/ \E m \in Magnitudes, gap \in CallGaps, ctxOk \in BOOLEAN : detectSteps(m, gap, ctxOk)
    \/ \E ctxOk \in BOOLEAN : toggleMusic(ctxOk)
    \/ Settle
    \/ onDestroy

SpecLifecycle == Init /\ [][NextLifecycle]_vars

\* The same sessions when every fetch and decode eventually resolves or rejects.
SpecSettling == SpecLifecycle /\ WF_vars(Settle)

\* A session in which the play button is never pressed: the motion pipeline and
\* the demo generator alone, on a finer clock and over the whole demo wave.
NextCadence ==
    \/ \E d \in CadenceAdvances : Advance(d, MaxCadenceAdvances)
    \/ \E answer \in {"granted", "denied", "error", "unprompted"} : requestPermission(answer)
    \/ \E m \in Magnitudes, gap \in CallGaps : detectSteps(m, gap, FALSE)
    \/ demoTimeoutFires
    \/ demoTick(CadenceTicks)

SpecCadence == Init /\ [][NextCadence]_vars

\* InitWarm but for the model's count of clock advances.
WarmReached ==
    /\ permissionGranted /\ isMonitoring /\ isDemoMode /\ ~isPlaying /\ ~isLoading
    /\ steps = 1 /\ lastStepTime = StartTime /\ magnitude = 120
    /\ now = StartTime + DemoDelayMs /\ demoTimeout = 0
    /\ demoTicks = WarmTicks /\ demoValue = DemoStart + WarmTicks /\ increasing
    /\ currentBPM = demoBPM(DemoStart + WarmTicks)
    /\ currentTrack = getMatchingTrack(currentBPM)
    /\ speed = <<DemoStart + WarmTicks, 20>>
    /\ permissionStatus = "Demo mode (simulated motion)"
    /\ currentAudio = null /\ audioSource = null /\ audioContext = "null"
    /\ loads = [f \in AudioFiles |-> 0]
    /\ orphaned = {}
    /\ timeElapsed = 0 /\ newBPM = <<0, 1>>
    /\ ~destroyed

\* The track selector alone, tabulated: the reactive statement of line 341 run
\* once for each BPM of BpmInputs.
InitTrack ==
    /\ permissionGranted = FALSE
    /\ isMonitoring = FALSE
    /\ steps = 0
    /\ lastStepTime = 0
    /\ isPlaying = FALSE
    /\ currentBPM \in BpmInputs
    /\ speed = <<0, 1>>
    /\ permissionStatus = "Waiting for permission"
    /\ isDemoMode = FALSE
    /\ currentAudio = null
    /\ audioContext = "null"
    /\ audioSource = null
    /\ isLoading = FALSE
    /\ currentTrack = null
    /\ now = StartTime
    /\ demoTimeout = 0
    /\ demoValue = DemoStart
    /\ increasing = TRUE
    /\ loads = [f \in AudioFiles |-> 0]
    /\ orphaned = {}
    /\ timeElapsed = 0
    /\ newBPM = <<0, 1>>
    /\ magnitude = 0
    /\ advances = 0
    /\ demoTicks = 0
    /\ destroyed = FALSE

selectTrack ==
    /\ currentTrack = null
    /\ currentTrack' = getMatchingTrack(currentBPM)
    /\ UNCHANGED <<isPlaying, currentBPM, speed, permissionStatus, now, advances>>
    /\ UNCHANGED <<audioVars, stepVars, permVars, demoVars, lifeVars>>

NextTrack == selectTrack

SpecTrack == InitTrack /\ [][NextTrack]_vars

----------------------------------------------------------------------------
(* Properties *)

sourceActive  == audioSource # null /\ audioSource.playing
elementActive == currentAudio # null /\ currentAudio.playing

\* A step was accepted in this transition.
stepAccepted == steps' = steps + 1

\* A step was accepted and calculateSpeed computed a cadence from it.
cadenceComputed == stepAccepted /\ steps' >= 2

\* Equality and order of fractions with positive denominators.
sameFraction(a, b) == a[1] * b[2] = b[1] * a[2]
rateInLimits(r) == r[2] > 0 /\ 2 * r[1] >= r[2] /\ r[1] <= 2 * r[2]

\* clamp(bpm / originalBPM, 0.5, 2.0) as the specification words it.
specRate(bpm, originalBPM) ==
    IF 10 * bpm < 5 * originalBPM THEN <<5, 10>>
    ELSE IF 10 * bpm > 20 * originalBPM THEN <<20, 10>>
    ELSE <<bpm, originalBPM>>

\* C1: steps and lastStepTime change only when a sample is accepted, and a sample
\* is accepted only if its magnitude is above 10.5 and more than 300 ms have
\* passed since the previous accepted step; so the timestamps of two consecutive
\* accepted steps are more than 300 ms apart.
C1_Refractory ==
    [][ (steps' # steps \/ lastStepTime' # lastStepTime)
        => /\ stepAccepted
           /\ magnitude' > 105
           /\ lastStepTime' = now
           /\ lastStepTime' - lastStepTime > 300 ]_vars

C1_Witness == steps >= 2 /\ lastStepTime > 0

\* C2: when the second or a later step is accepted, the cadence comes from the
\* interval dt between this step and the previous accepted one:
\* stepRate = 1 / dt, speed = 0.7 * stepRate, bpm = clamp(60 * stepRate, 60, 180).
C2_CadenceFromInterval ==
    [][ cadenceComputed
        => LET dt == lastStepTime' - lastStepTime
           IN  /\ timeElapsed' = dt
               /\ sameFraction(speed', <<700, dt>>)
               /\ IF 60000 > 180 * dt THEN sameFraction(newBPM', <<180, 1>>)
                  ELSE IF 60000 < 60 * dt THEN sameFraction(newBPM', <<60, 1>>)
                  ELSE sameFraction(newBPM', <<60000, dt>>) ]_vars

\* C3 as claimed: currentBPM lies in [60, 180] in every reachable state.
C3_Original == currentBPM >= 60 /\ currentBPM <= 180

\* C3 as amended: currentBPM is 0 as long as no cadence has been written (fewer
\* than two accepted steps and no demo tick), and lies in [60, 180] from the
\* first write on, whether the estimator or the demo generator wrote it.
C3_BpmRange ==
    IF steps >= 2 \/ demoTicks > 0
    THEN currentBPM >= 60 /\ currentBPM <= 180
    ELSE currentBPM = 0

C3_Witness == steps >= 2 /\ demoTicks > 0 /\ currentBPM = 180

\* C4: getMatchingTrack returns the one entry whose range [minBPM, maxBPM)
\* holds the bpm, and the first entry when none does; the ranges tile [0, 200),
\* so every bpm of [0, 200) has exactly one entry and no other bpm has any.
specTrackName(bpm) ==
    IF bpm < 0 THEN "Relaxing Ambient"
    ELSE IF bpm < 90 THEN "Relaxing Ambient"
    ELSE IF bpm < 110 THEN "Chill Vibes"
    ELSE IF bpm < 130 THEN "Walking Rhythm"
    ELSE IF bpm < 150 THEN "Energy Boost"
    ELSE IF bpm < 200 THEN "Power Walk"
    ELSE "Relaxing Ambient"

C4_TrackSelection ==
    currentTrack # null
    => LET holding == { i \in 1..Len(musicTracks) : inRange(musicTracks[i], currentBPM) }
       IN  /\ currentTrack.name = specTrackName(currentBPM)
           /\ Cardinality(holding) = IF currentBPM >= 0 /\ currentBPM < 200 THEN 1 ELSE 0
           /\ holding # {} => currentTrack = musicTracks[CHOOSE i \in holding : TRUE]
           /\ holding = {} => currentTrack = musicTracks[1]
           /\ (currentBPM >= 60 /\ currentBPM <= 180) => holding # {}

C4_Witness ==
    /\ currentTrack # null
    /\ currentBPM = 200
    /\ currentTrack.name = "Relaxing Ambient"

\* C5: the playback rate of the buffered source and of the streaming element is
\* always within [0.5, 2.0], and whenever an engine is created or its rate is
\* set, the rate is clamp(currentBPM / originalBPM, 0.5, 2.0) for the track it
\* was computed with: the engine's own track when it is started, the track
\* matching the new BPM when it is retuned.
rateSetFor(engine, bpm) ==
    \/ sameFraction(engine.rate, specRate(bpm, TrackOfFile(engine.file).originalBPM))
    \/ sameFraction(engine.rate, specRate(bpm, getMatchingTrack(bpm).originalBPM))

C5_RateClamped ==
    /\ [](audioSource # null => rateInLimits(audioSource.rate))
    /\ [](currentAudio # null => rateInLimits(currentAudio.rate))
    /\ [][ (audioSource' # null
            /\ (audioSource = null \/ audioSource'.rate # audioSource.rate
                \/ audioSource'.file # audioSource.file))
           => rateSetFor(audioSource', currentBPM') ]_vars
    /\ [][ (currentAudio' # null
            /\ (currentAudio = null \/ currentAudio'.rate # currentAudio.rate
                \/ currentAudio'.file # currentAudio.file))
           => rateSetFor(currentAudio', currentBPM') ]_vars

C5_Witness ==
    /\ currentBPM = 0
    /\ sourceActive
    /\ audioSource.rate = <<1, 2>>

\* C6: the buffered source and the streaming element are never both playing.
C6_OneEngine == ~(sourceActive /\ elementActive)

\* C7: while isPlaying is false no engine is playing.
C7_StoppedIsSilent == ~isPlaying => (~sourceActive /\ ~elementActive)

\* C8: at most one track load is in flight at any time.
C8_OneLoad == InFlight <= 1

\* C9: a cadence update whose newBPM is within 2 of currentBPM leaves currentBPM,
\* both engines and the loads as they were; one whose newBPM differs by more
\* than 2 while playback is on and an engine is running starts a load (a switch)
\* or leaves a running engine at the rate of the new BPM (a retune).
withinHysteresis(b, cur) ==
    /\ b[1] - cur * b[2] <= 2 * b[2]
    /\ cur * b[2] - b[1] <= 2 * b[2]

retuned(engine, bpm) ==
    sameFraction(engine.rate, specRate(bpm, getMatchingTrack(bpm).originalBPM))

C9_Hysteresis ==
    [][ cadenceComputed
        => /\ withinHysteresis(newBPM', currentBPM)
              => /\ currentBPM' = currentBPM
                 /\ audioSource' = audioSource
                 /\ currentAudio' = currentAudio
                 /\ loads' = loads
                 /\ isLoading' = isLoading
           /\ (~withinHysteresis(newBPM', currentBPM) /\ isPlaying
               /\ (sourceActive \/ elementActive))
              => \/ loads' # loads
                 \/ sourceActive' /\ retuned(audioSource', currentBPM')
                 \/ elementActive' /\ retuned(currentAudio', currentBPM') ]_vars

\* C10: on a cadence update that passes the hysteresis while one engine is
\* playing: if the new BPM maps to another track than the one that engine plays,
\* the engine is stopped and a load of the new track is started; if it maps to
\* the same track, no load is started and that engine's rate becomes
\* clamp(newBPM / originalBPM, 0.5, 2.0).
playingFile == IF sourceActive THEN audioSource.file ELSE currentAudio.file

C10_SwitchOrRetune ==
    [][ (cadenceComputed /\ ~withinHysteresis(newBPM', currentBPM) /\ isPlaying
         /\ sourceActive # elementActive)
        => LET newTrack == getMatchingTrack(currentBPM')
           IN  IF newTrack.audioFile # playingFile
               THEN /\ loads' = [loads EXCEPT ![newTrack.audioFile] = @ + 1]
                    /\ ~sourceActive'
                    /\ ~elementActive'
               ELSE /\ loads' = loads
                    /\ sourceActive' = sourceActive
                    /\ elementActive' = elementActive
                    /\ sourceActive => retuned(audioSource', currentBPM')
                    /\ elementActive => retuned(currentAudio', currentBPM') ]_vars

\* The load of file f settled by failure in this transition and the fallback
\* element started to play.
fallbackStarted(f) == LoadFails(f, "plays")

\* C11: when a track start fails on the pitch-preserving path, the same track is
\* started on the streaming element, looped, at volume 0.7 and at the clamped
\* rate, and the buffered source is not left playing.
C11_FallbackOnFailure ==
    [][ \A f \in AudioFiles :
          fallbackStarted(f)
          => /\ elementActive'
             /\ currentAudio'.file = f
             /\ currentAudio'.loop
             /\ currentAudio'.volume = 7
             /\ sameFraction(currentAudio'.rate,
                             specRate(currentBPM, TrackOfFile(f).originalBPM))
             /\ ~sourceActive' ]_vars

\* The load of file f settled in this transition with both engines failing to
\* start: the fallback's play() was rejected or its construction threw.
bothFailed(f) == LoadFails(f, "rejected") \/ LoadFails(f, "throws")

\* C12: when a track start has failed on both engines and no load is left in
\* flight, isPlaying is false.
C12_NoFalseSuccess ==
    [][ \A f \in AudioFiles :
          (bothFailed(f) /\ InFlight' = 0) => ~isPlaying' ]_vars

\* A call of stopAudio in this transition: the stop branch of toggleMusic or the
\* cleanup of the component.
stopCalled == (isPlaying /\ ~isPlaying') \/ (~destroyed /\ destroyed')

\* C13: stopAudio is idempotent.  From every reachable state, stopAudio leaves
\* no buffered source and no streaming element referenced, a second call leaves
\* what the first call left, and a call with no engine referenced changes
\* nothing; and each call the program makes has that result.
C13_StopIdempotent ==
    /\ [] LET once  == stopAudioResult(audioSource, currentAudio)
              twice == stopAudioResult(once[1], once[2])
          IN  /\ once = <<null, null>>
              /\ twice = once
              /\ (audioSource = null /\ currentAudio = null)
                 => once = <<audioSource, currentAudio>>
    /\ [][ stopCalled => (audioSource' = null /\ currentAudio' = null) ]_vars

\* stopAudio was called twice in a row: by the stop button and, with nothing
\* started in between, by the cleanup.
C13_Witness ==
    /\ destroyed
    /\ ~isPlaying
    /\ audioContext = "closed"
    /\ InFlight = 0
    /\ audioSource = null
    /\ currentAudio = null

\* C14: without permission there is no monitoring: isMonitoring, an accepted
\* step, an armed demo timer and demo mode each imply permissionGranted, and as
\* long as permission is not granted steps stays 0.
C14_NoMonitoringWithoutPermission ==
    /\ [](isMonitoring => permissionGranted)
    /\ [](steps > 0 => permissionGranted)
    /\ [](demoTimeout # 0 => permissionGranted)
    /\ [](isDemoMode => permissionGranted)
    /\ [](demoTicks > 0 => permissionGranted)
    /\ [][ ~permissionGranted'
           => /\ steps' = 0 /\ lastStepTime' = 0
              /\ ~isMonitoring' /\ demoTimeout' = 0 /\ ~isDemoMode' ]_vars

\* Permission was denied, samples above the threshold kept arriving and more
\* than the demo delay has passed.
C14_Witness ==
    /\ permissionStatus = "Permission denied"
    /\ ~permissionGranted
    /\ now >= StartTime + DemoDelayMs + DemoDelayMs
    /\ steps = 0
    /\ ~isDemoMode

\* The 3000 ms timer of startMonitoring ran in this transition.
demoTimerRan == demoTimeout # 0 /\ demoTimeout' = 0

\* C15: when the timer runs, demo mode starts if and only if no step has been
\* accepted since monitoring started; with one accepted step it does not start.
C15_DemoOnlyWithoutSteps ==
    [][ demoTimerRan => (isDemoMode' <=> steps = 0) ]_vars

\* The demo generator wrote a new BPM in this transition.
demoUpdated == demoTicks' = demoTicks + 1

\* C16: a demo update made while playback is on and one engine is playing takes
\* the playback controller's path: if the new BPM maps to another track than the
\* one playing, a load of that track is started; otherwise the playing engine's
\* rate becomes clamp(newBPM / originalBPM, 0.5, 2.0).
C16_DemoDrivesPlayback ==
    [][ (demoUpdated /\ isPlaying /\ sourceActive # elementActive
         /\ currentBPM' # currentBPM)
        => LET newTrack == getMatchingTrack(currentBPM')
           IN  IF newTrack.audioFile # playingFile
               THEN loads' = [loads EXCEPT ![newTrack.audioFile] = @ + 1]
               ELSE IF sourceActive
               THEN sourceActive' /\ retuned(audioSource', currentBPM')
               ELSE elementActive' /\ retuned(currentAudio', currentBPM') ]_vars

\* C17: once the component is destroyed no engine is playing, and no load is
\* started.
C17_TeardownIsFinal ==
    /\ [](destroyed => (~sourceActive /\ ~elementActive))
    /\ [][ destroyed => InFlight' <= InFlight ]_vars

\* C18: isLoading is true as long as a load is in flight, so the play button,
\* which is enabled exactly when isLoading is false, is never enabled during a
\* load.
C18_LoadingFlag == ~isLoading => InFlight = 0

\* C19: every load settles: whenever isLoading is true, a state with isLoading
\* false follows, provided every fetch and decode resolves or rejects.
C19_LoadSettles == isLoading ~> ~isLoading

\* A start by the button and a switch by a cadence update have both settled.
C19_Witness ==
    /\ isPlaying
    /\ ~isLoading
    /\ InFlight = 0
    /\ steps >= 2
    /\ audioContext # "null"

\* C20: whenever calculateSpeed divides by timeElapsed, timeElapsed is more than
\* the refractory period of 300 ms, so it is positive and speed is finite.
C20_DivisorPositive ==
    [][ cadenceComputed
        => /\ timeElapsed' > RefractoryMs
           /\ speed'[2] # 0 ]_vars

\* C21: every demo tick moves the synthetic speed by 0.05 and leaves it within
\* [0.5, 1.8], and writes the BPM round(80 + value * 40), which is within
\* [100, 152].
C21_DemoWaveRange ==
    [][ demoUpdated
        => /\ demoValue' - demoValue \in {0 - 1, 1}
           /\ demoValue' >= DemoLow /\ demoValue' <= DemoHigh
           /\ speed' = <<demoValue', 20>>
           /\ currentBPM' = demoBPM(demoValue')
           /\ currentBPM' >= 100 /\ currentBPM' <= 152 ]_vars

\* C22: every buffered source that was started is the one the controller
\* references or has been stopped, so at most one is sounding and a call of
\* stopAudio leaves none sounding.
C22_NoOrphanSource ==
    /\ [](orphaned = {})
    /\ [][ stopCalled => (orphaned' = {} /\ ~sourceActive' /\ ~elementActive') ]_vars

\* C23: while playback is on and no load is in flight, the track shown as
\* playing is getMatchingTrack(currentBPM) and it is the track of every engine
\* that is playing.
C23_PlayingIsDisplayed ==
    (isPlaying /\ InFlight = 0)
    => /\ currentTrack = getMatchingTrack(currentBPM)
       /\ sourceActive => audioSource.file = currentTrack.audioFile
       /\ elementActive => currentAudio.file = currentTrack.audioFile

====
